---- MODULE Spec2Model ----
(***************************************************************************)
(* Module-spec resolution of astroid (astroid/interpreter/_import/spec.py): *)
(* find_spec walks a dotted module path component by component through the *)
(* chain of finders, sharing sys.path_importer_cache between calls.        *)
(***************************************************************************)
EXTENDS Naturals, Sequences, FiniteSets, TLC

(***************************************************************************)
(* Bounds of the model.                                                    *)
(***************************************************************************)
\* longest dotted path a caller passes to find_spec
MaxDepth == 2
\* longest explicit search path a caller passes to find_spec
MaxPathLen == 1
\* the number of calls of find_spec one process makes
MaxCalls == 2
\* the number of threads that call find_spec concurrently
NumThreads == 2
\* longest dotted path and longest search path of a concurrent call
ConcDepth == 1
ConcPathLen == 1
\* longest list of directories passed to ImportlibFinder.find_module directly
MaxScanLen == 2

(***************************************************************************)
(* Python values.                                                          *)
(***************************************************************************)
\* Python's None where a string (location, origin, type) is expected
None == "<None>"
\* an optional list: Python's None, a list of strings, or a single string
NoList == [tag |-> "None", items |-> <<>>]
List(xs) == [tag |-> "list", items |-> xs]
Str(s) == [tag |-> "str", items |-> <<s>>]
\* Python truthiness of an optional list
Truthy(v) == v.tag # "None" /\ v.items # <<>> /\ v.items # <<"">>
\* an `or` that keeps its first operand, falsy or not
Or_NoFallback(a, b) == a

\* Python's `a or b`
Or(a, b) == IF Truthy(a) THEN a ELSE b

ModuleType ==
  {"C_BUILTIN", "C_EXTENSION", "PKG_DIRECTORY", "PY_CODERESOURCE", "PY_COMPILED",
   "PY_FROZEN", "PY_RESOURCE", "PY_SOURCE", "PY_ZIPMODULE", "PY_NAMESPACE"}

\* ModuleSpec(name, type, location=None, origin=None, submodule_search_locations=None)
ModuleSpec(name, type, location, origin, ssl) ==
  [name |-> name, type |-> type, location |-> location, origin |-> origin,
   submodule_search_locations |-> ssl]
\* a finder's "no match" (find_module returning None)
NoSpec == ModuleSpec(None, "<no spec>", None, None, NoList)

(***************************************************************************)
(* Strings and os.path.                                                    *)
(***************************************************************************)
Sep == "/"
Cwd == "/cwd"

RECURSIVE JoinWith(_, _)
\* sep.join(parts)
JoinWith(sepr, parts) ==
  IF parts = <<>> THEN ""
  ELSE IF Len(parts) = 1 THEN parts[1]
  ELSE parts[1] \o sepr \o JoinWith(sepr, Tail(parts))

StartsWith(s, p) == Len(p) <= Len(s) /\ SubSeq(s, 1, Len(p)) = p

\* os.path.join(a, b) for a relative b
PathJoin(a, b) ==
  IF a = "" THEN b
  ELSE IF SubSeq(a, Len(a), Len(a)) = Sep THEN a \o b
  ELSE a \o Sep \o b

RECURSIVE PathJoinAll(_, _)
\* os.path.join(p, *parts)
PathJoinAll(p, parts) ==
  IF parts = <<>> THEN p ELSE PathJoinAll(PathJoin(p, parts[1]), Tail(parts))

\* os.path.abspath(p)
Abspath(p) == IF StartsWith(p, Sep) THEN p ELSE PathJoin(Cwd, p)

RECURSIVE LastSep(_, _)
\* index of the last separator of s at or before position k (0: none)
LastSep(s, k) ==
  IF k = 0 THEN 0 ELSE IF SubSeq(s, k, k) = Sep THEN k ELSE LastSep(s, k - 1)

\* str(Path(p).parent)
Parent(p) ==
  LET k == LastSep(p, Len(p))
  IN IF k = 0 THEN "." ELSE IF k = 1 THEN Sep ELSE SubSeq(p, 1, k - 1)

UpperOf == [c \in {"D", "Z", "A", "B", "L"} |->
              CASE c = "D" -> "d" [] c = "Z" -> "z" [] c = "A" -> "a"
                [] c = "B" -> "b" [] c = "L" -> "l"]

RECURSIVE Lower(_)
\* str.lower()
Lower(s) ==
  IF s = "" THEN ""
  ELSE LET c == SubSeq(s, 1, 1)
       IN (IF c \in DOMAIN UpperOf THEN UpperOf[c] ELSE c) \o Lower(SubSeq(s, 2, Len(s)))

RECURSIVE ReprItems(_)
ReprItems(xs) ==
  IF xs = <<>> THEN ""
  ELSE IF Len(xs) = 1 THEN "'" \o xs[1] \o "'"
  ELSE "'" \o xs[1] \o "', " \o ReprItems(Tail(xs))
\* repr() of a list of strings
Repr(xs) == "[" \o ReprItems(xs) \o "]"

Range(s) == {s[i] : i \in DOMAIN s}

\* the one element of a singleton set: Only({F(x) : x \in {e}}) is F(e) with e computed once
Only(S) == CHOOSE x \in S : TRUE

(***************************************************************************)
(* The environment the resolver reads: files, archives, the interpreter's   *)
(* native registry and the namespace registry.  A world is a record         *)
(*   files   : the regular files (os.path.isfile)                           *)
(*   dirs    : the directories (os.path.isdir)                              *)
(*   head    : readable file -> the tokens within its first 4096 bytes      *)
(*   zip     : archive path -> the module paths the archive holds           *)
(*   native  : name -> what importlib.util.find_spec(name) reports          *)
(*   nspkgs  : dotted name of a registered, live namespace -> its __path__  *)
(***************************************************************************)
Names == {"a", "b", "sys"}
Entries == {"d1", "d2", "z1"}
\* sys.path
SysPath == <<"d1">>

PlainWorld ==
  [files |-> {"d1/a/__init__.py", "d1/a/b.py", "d1/a/b.pyc", "d1/a/a/__init__.py",
              "d1/b.py", "d1/sys.py",
              "d2/a.so", "d2/a.py", "d2/a.pyc",
              "d2/b/__init__.py", "d2/b.py", "d2/b/a.pyc"},
   dirs |-> {"d1", "d2", "d1/a", "d1/a/a", "d2/b"},
   head |-> [f \in {"d1/a/__init__.py", "d1/a/a/__init__.py", "d2/b/__init__.py"} |-> {}],
   zip |-> [z \in {"z1"} |-> {"a", "b", "b/a"}],
   native |-> [n \in Names |-> IF n = "sys" THEN "builtin" ELSE "none"],
   frozenfile |-> [n \in Names |-> None],
   nspkgs |-> [q \in {} |-> <<>>]]

NamespaceWorld ==
  [files |-> {"d1/a/__init__.py", "d1/a/b.py",
              "d2/a/__init__.py", "d2/a/sys.py", "d2/a/b.so",
              "d2/b/a.py", "d2/sys/b.py"},
   dirs |-> {"d1", "d2", "d1/a", "d2/a", "d2/b", "d2/sys"},
   head |-> [f \in {"d1/a/__init__.py", "d2/a/__init__.py"} |->
               IF f = "d1/a/__init__.py" THEN {"pkgutil", "extend_path"}
               ELSE {"pkg_resources", "declare_namespace(__name__)"}],
   zip |-> [z \in {"z1"} |-> {"sys"}],
   native |-> [n \in Names |-> IF n = "sys" THEN "builtin" ELSE "none"],
   frozenfile |-> [n \in Names |-> None],
   nspkgs |-> [q \in {"b", "a.a"} |-> IF q = "b" THEN <<"d2/b">> ELSE <<"d2/sys">>]]

FrozenWorld ==
  [files |-> {"d1/b.py", "d1/a/__init__.pyc", "d1/a/b.py",
              "d2/a/__init__.py", "d2/a/b.py", "d2/a/b/__init__.py",
              "d1/distutils/__init__.py", "d2/distutils/__init__.pyc",
              "d1/Lib/distutils/__init__.pyc"},
   dirs |-> {"d1", "d2", "d1/a", "d2/a", "d2/a/b", "d1/distutils", "d2/distutils",
             "d1/Lib", "d1/Lib/distutils"},
   head |-> [f \in {"d2/a/__init__.py", "d2/a/b/__init__.py", "d1/distutils/__init__.py"} |->
               IF f = "d2/a/__init__.py" THEN {"pkgutil"} ELSE {}],
   zip |-> [z \in {"z1"} |-> {"a", "a/b"}],
   native |-> [n \in Names |->
                 IF n = "sys" THEN "builtin" ELSE IF n = "b" THEN "frozen" ELSE "ValueError"],
   frozenfile |-> [n \in Names |-> IF n = "b" THEN "/frozen/b.py" ELSE None],
   nspkgs |-> [q \in {} |-> <<>>]]

World == [n \in {"plain", "namespace", "frozen"} |->
            CASE n = "plain" -> PlainWorld [] n = "namespace" -> NamespaceWorld
              [] n = "frozen" -> FrozenWorld]

\* a path as the world names it: relative to the working directory
Rel(p) ==
  IF StartsWith(p, Cwd \o Sep) THEN SubSeq(p, Len(Cwd) + 2, Len(p)) ELSE p
\* os.path.isfile(p)
IsFile(w, p) == Rel(p) \in w.files
\* os.path.isdir(p)
IsDir(w, p) == Rel(p) \in w.dirs
\* zipimport.zipimporter(p) succeeds
IsZip(w, p) == Rel(p) \in DOMAIN w.zip
\* zipimporter.find_module(member) on the archive z
ZipHas(w, z, member) == member \in w.zip[Rel(z)]

(***************************************************************************)
(* sys.path_importer_cache: an insertion-ordered dict, path -> importer.    *)
(***************************************************************************)
Keys(pic) == {pic[i].key : i \in DOMAIN pic}
ValueOf(pic, k) == pic[CHOOSE i \in DOMAIN pic : pic[i].key = k].importer
IsZipimporter(e) == e.importer = "zipimporter"

\* what sys.path_hooks build for a path entry: a zipimporter for an archive, a
\* FileFinder for a directory, None otherwise
ImporterFor(w, p) ==
  IF IsZip(w, p) THEN "zipimporter" ELSE IF IsDir(w, p) THEN "FileFinder" ELSE None

\* importlib.machinery.EXTENSION_SUFFIXES, SOURCE_SUFFIXES, BYTECODE_SUFFIXES
EXTENSION_SUFFIXES == <<".so">>
SOURCE_SUFFIXES == <<".py">>
BYTECODE_SUFFIXES == <<".pyc">>

(***************************************************************************)
(* importlib.machinery.PathFinder.find_spec(name, path), the interpreter's  *)
(* path-based finder: it caches an importer for every entry it looks at.    *)
(***************************************************************************)
NoHit == [kind |-> "none", origin |-> None, locations |-> <<>>]
LoaderSuffixes == EXTENSION_SUFFIXES \o SOURCE_SUFFIXES \o BYTECODE_SUFFIXES

\* FileFinder(d).find_spec(name); a FileFinder keeps its directory as an absolute path
FileFinderFindSpec(w, d, name) ==
  LET dir == Abspath(d)
      base == PathJoin(dir, name)
      inits == {i \in DOMAIN LoaderSuffixes :
                  IsFile(w, PathJoin(base, "__init__" \o LoaderSuffixes[i]))}
      mods == {i \in DOMAIN LoaderSuffixes : IsFile(w, PathJoin(dir, name \o LoaderSuffixes[i]))}
      first(S) == CHOOSE i \in S : \A j \in S : i <= j
  IN IF IsDir(w, base) /\ inits # {}
       THEN [kind |-> "module",
             origin |-> PathJoin(base, "__init__" \o LoaderSuffixes[first(inits)]),
             locations |-> <<base>>]
     ELSE IF mods # {}
       THEN [kind |-> "module", origin |-> PathJoin(dir, name \o LoaderSuffixes[first(mods)]),
             locations |-> <<>>]
     ELSE IF IsDir(w, base)
       THEN [kind |-> "portion", origin |-> None, locations |-> <<base>>]
     ELSE NoHit

\* zipimporter(z).find_spec(name)
ZipimporterFindSpec(w, z, name) ==
  IF ~ZipHas(w, z, name) THEN NoHit
  ELSE IF \E n \in Names : ZipHas(w, z, name \o Sep \o n)
    THEN [kind |-> "module", origin |-> PathJoin(PathJoin(z, name), "__init__.py"),
          locations |-> <<PathJoin(z, name)>>]
  ELSE [kind |-> "module", origin |-> PathJoin(z, name \o ".py"), locations |-> <<>>]

\* a cache that is reset when an entry is added, instead of growing
PathImporterCache_Evicts(w, pic, e) ==
  IF e \in Keys(pic) THEN pic ELSE <<[key |-> e, importer |-> ImporterFor(w, e)]>>

\* sys.path_importer_cache with an importer for entry e (PathFinder._path_importer_cache)
PathImporterCache(w, pic, e) ==
  IF e \in Keys(pic) THEN pic ELSE Append(pic, [key |-> e, importer |-> ImporterFor(w, e)])

RECURSIVE PathFinderScan(_, _, _, _, _, _)
PathFinderScan(w, pic, name, entries, k, portions) ==
  IF k > Len(entries)
    THEN [kind |-> IF portions # <<>> THEN "namespace" ELSE "none", origin |-> None,
          locations |-> portions, pic |-> pic]
  ELSE Only({
         Only({
           IF hit.kind = "module"
             THEN [kind |-> "module", origin |-> hit.origin, locations |-> hit.locations,
                   pic |-> pic2]
           ELSE PathFinderScan(w, pic2, name, entries, k + 1,
                               IF hit.kind = "portion" THEN portions \o hit.locations
                               ELSE portions)
           : hit \in {LET e == entries[k]
                          imp == ValueOf(pic2, e)
                      IN IF imp = "FileFinder" THEN FileFinderFindSpec(w, e, name)
                         ELSE IF imp = "zipimporter" THEN ZipimporterFindSpec(w, e, name)
                         ELSE NoHit}})
         : pic2 \in {PathImporterCache(w, pic, entries[k])}})

\* PathFinder.find_spec(name, path): path None means sys.path
PathFinderFindSpec(w, pic, name, path) ==
  PathFinderScan(w, pic, name, IF path.tag = "None" THEN SysPath ELSE path.items, 1, <<>>)

\* importlib.util.find_spec(name): the loader that satisfies name, its origin, and the
\* cache after the lookup (only a lookup that reaches PathFinder touches the cache)
UtilFindSpec(w, pic, name) ==
  LET n == IF name \in DOMAIN w.native THEN w.native[name] ELSE "none"
  IN IF n \in {"builtin", "frozen", "ValueError"}
       THEN [loader |-> n, origin |-> IF n = "frozen" THEN w.frozenfile[name] ELSE None,
             pic |-> pic]
     ELSE Only({[loader |-> r.kind, origin |-> r.origin, pic |-> r.pic]
                : r \in {PathFinderFindSpec(w, pic, name, NoList)}})
(***************************************************************************)
(* The finders.                                                            *)
(***************************************************************************)
\* ImportlibFinder._SUFFIXES: <<suffix, type>> in priority order
SUFFIXES ==
  [i \in DOMAIN EXTENSION_SUFFIXES |-> <<EXTENSION_SUFFIXES[i], "C_EXTENSION">>]
  \o [i \in DOMAIN SOURCE_SUFFIXES |-> <<SOURCE_SUFFIXES[i], "PY_SOURCE">>]
  \o [i \in DOMAIN BYTECODE_SUFFIXES |-> <<BYTECODE_SUFFIXES[i], "PY_COMPILED">>]

\* the suffixes of a package's __init__ file that find_module looks for
InitSuffixes == <<".py", BYTECODE_SUFFIXES[1]>>

\* a pass that looks for the files before it looks for the package directory
ScanEntry_FileBeforePackage(w, entry, modname) ==
  LET package_directory == PathJoin(entry, modname)
      isPackage == \E i \in DOMAIN InitSuffixes :
                     IsFile(w, PathJoin(package_directory, "__init__" \o InitSuffixes[i]))
      hits == {i \in DOMAIN SUFFIXES : IsFile(w, PathJoin(entry, modname \o SUFFIXES[i][1]))}
      first == CHOOSE i \in hits : \A j \in hits : i <= j
  IN IF hits # {}
       THEN ModuleSpec(modname, SUFFIXES[first][2],
                       PathJoin(entry, modname \o SUFFIXES[first][1]), None, NoList)
     ELSE IF isPackage
       THEN ModuleSpec(modname, "PKG_DIRECTORY", package_directory, None, NoList)
     ELSE NoSpec

\* one pass of the loop over the search path in ImportlibFinder.find_module
ScanEntry(w, entry, modname) ==
  LET package_directory == PathJoin(entry, modname)
      isPackage == \E i \in DOMAIN InitSuffixes :
                     IsFile(w, PathJoin(package_directory, "__init__" \o InitSuffixes[i]))
      hits == {i \in DOMAIN SUFFIXES : IsFile(w, PathJoin(entry, modname \o SUFFIXES[i][1]))}
      first == CHOOSE i \in hits : \A j \in hits : i <= j
  IN IF isPackage
       THEN ModuleSpec(modname, "PKG_DIRECTORY", package_directory, None, NoList)
     ELSE IF hits # {}
       THEN ModuleSpec(modname, SUFFIXES[first][2],
                       PathJoin(entry, modname \o SUFFIXES[first][1]), None, NoList)
     ELSE NoSpec

RECURSIVE ScanPath(_, _, _)
ScanPath(w, entries, modname) ==
  IF entries = <<>> THEN NoSpec
  ELSE Only({IF s # NoSpec THEN s ELSE ScanPath(w, Tail(entries), modname)
              : s \in {ScanEntry(w, entries[1], modname)}})

\* a find_module that scans sys.path before it asks the native registry
ImportlibFindModule_ScanFirst(w, pic, modname, submodule_path) ==
  IF submodule_path.tag # "None"
    THEN [spec |-> ScanPath(w, submodule_path.items, modname), pic |-> pic]
  ELSE Only({
         IF s # NoSpec THEN [spec |-> s, pic |-> pic]
         ELSE Only({
                IF u.loader = "builtin"
                  THEN [spec |-> ModuleSpec(modname, "C_BUILTIN", None, None, NoList),
                        pic |-> u.pic]
                ELSE IF u.loader = "frozen"
                  THEN [spec |-> ModuleSpec(modname, "PY_FROZEN", u.origin, None, NoList),
                        pic |-> u.pic]
                ELSE [spec |-> NoSpec, pic |-> u.pic]
                : u \in {UtilFindSpec(w, pic, modname)}})
         : s \in {ScanPath(w, SysPath, modname)}})

\* ImportlibFinder.find_module: the record (or NoSpec) and the cache afterwards
ImportlibFindModule(w, pic, modname, submodule_path) ==
  IF submodule_path.tag # "None"
    THEN [spec |-> ScanPath(w, submodule_path.items, modname), pic |-> pic]
  ELSE Only({
         IF u.loader = "builtin"
           THEN [spec |-> ModuleSpec(modname, "C_BUILTIN", None, None, NoList), pic |-> u.pic]
         ELSE IF u.loader = "frozen"
           THEN [spec |-> ModuleSpec(modname, "PY_FROZEN", u.origin, None, NoList),
                 pic |-> u.pic]
         ELSE [spec |-> ScanPath(w, SysPath, modname), pic |-> u.pic]
         : u \in {UtilFindSpec(w, pic, modname)}})

\* an _is_setuptools_namespace that takes an unreadable __init__.py for a namespace marker
IsSetuptoolsNamespace_UnreadableIsNamespace(w, location) ==
  \/ Rel(PathJoin(location, "__init__.py")) \notin DOMAIN w.head
  \/ \E data \in {w.head[f] : f \in {Rel(PathJoin(location, "__init__.py"))} \cap DOMAIN w.head} :
       \/ "pkgutil" \in data /\ "extend_path" \in data
       \/ "pkg_resources" \in data /\ "declare_namespace(__name__)" \in data

\* _is_setuptools_namespace(location): None (falsy) when __init__.py cannot be read
IsSetuptoolsNamespace(w, location) ==
  LET f == PathJoin(location, "__init__.py")
  IN IF Rel(f) \notin DOMAIN w.head THEN FALSE
     ELSE LET data == w.head[Rel(f)]
              extend_path == "pkgutil" \in data /\ "extend_path" \in data
              declare_namespace ==
                "pkg_resources" \in data /\ "declare_namespace(__name__)" \in data
          IN extend_path \/ declare_namespace

\* astroid.modutils.EXT_LIB_DIRS
EXT_LIB_DIRS == {"d1/Lib"}

\* a contribute_to_path that never narrows the search path
ImportlibContributeToPath_NoNarrowing(w, pic, spec, processed) ==
  [path |-> NoList, pic |-> pic]

\* a contribute_to_path without the namespace widening: always the package's own directory
ImportlibContributeToPath_NoWidening(w, pic, spec, processed) ==
  [path |-> IF spec.location = None THEN NoList ELSE List(<<spec.location>>), pic |-> pic]

\* ImportlibFinder.contribute_to_path: the child search path and the cache afterwards
ImportlibContributeToPath(w, pic, spec, processed) ==
  IF spec.location = None THEN [path |-> NoList, pic |-> pic]
  ELSE IF IsSetuptoolsNamespace(w, spec.location)
    THEN [path |-> List(SelectSeq([i \in DOMAIN SysPath |-> PathJoinAll(SysPath[i], processed)],
                                  LAMBDA d : IsDir(w, d))),
          pic |-> pic]
  ELSE IF spec.name = "distutils"
          /\ ~\E ext_lib_dir \in EXT_LIB_DIRS :
                StartsWith(Lower(spec.location), Lower(ext_lib_dir))
    THEN Only({
           IF distutils_spec.loader # "none" /\ distutils_spec.origin # None
             THEN [path |-> List(<<Parent(distutils_spec.origin)>>), pic |-> distutils_spec.pic]
           ELSE [path |-> List(<<spec.location>>), pic |-> distutils_spec.pic]
           : distutils_spec \in {UtilFindSpec(w, pic, "distutils")}})
  ELSE [path |-> List(<<spec.location>>), pic |-> pic]

\* ExplicitNamespacePackageFinder.find_module
ExplicitNamespaceFindModule(w, modname, processed) ==
  LET qualified == IF processed # <<>> THEN JoinWith(".", Append(processed, modname))
                   ELSE modname
  IN IF qualified \in DOMAIN w.nspkgs
       THEN ModuleSpec(qualified, "PY_NAMESPACE", "", "namespace", List(w.nspkgs[qualified]))
     ELSE NoSpec

\* _search_zip(modpath, pic): pic is the sequence of cached zipimporters
RECURSIVE SearchZip(_, _, _)
SearchZip(w, modpath, importers) ==
  IF importers = <<>>
    THEN [raised |-> TRUE, error |-> "No module named " \o JoinWith(".", modpath),
          partial |-> FALSE, file_type |-> None, filename |-> None, path |-> None]
  ELSE LET filepath == importers[1].key
       IN IF importers[1].importer # None /\ ZipHas(w, filepath, modpath[1])
            THEN IF ~ZipHas(w, filepath, JoinWith(Sep, modpath))
                   THEN [raised |-> TRUE,
                         error |-> "No module named " \o JoinWith(".", Tail(modpath)) \o " in "
                                   \o filepath \o "/" \o Repr(modpath),
                         partial |-> TRUE, file_type |-> None, filename |-> None,
                         path |-> None]
                 ELSE [raised |-> FALSE, error |-> None, partial |-> FALSE,
                       file_type |-> "PY_ZIPMODULE",
                       filename |-> Abspath(filepath) \o Sep \o JoinWith(Sep, modpath),
                       path |-> filepath]
          ELSE SearchZip(w, modpath, Tail(importers))

\* a find_module that takes an archive holding the first component for a match
ZipFindModule_PartialMatches(w, importers, modname, module_parts) ==
  Only({IF r.raised /\ ~r.partial THEN NoSpec
        ELSE ModuleSpec(modname, "PY_ZIPMODULE", r.filename, "egg", Str(r.path))
        : r \in {SearchZip(w, module_parts, importers)}})

\* ZipFinder.find_module: an ImportError of _search_zip is caught and turned into None
ZipFindModule(w, importers, modname, module_parts) ==
  Only({IF r.raised THEN NoSpec
        ELSE ModuleSpec(modname, r.file_type, r.filename, "egg", Str(r.path))
        : r \in {SearchZip(w, module_parts, importers)}})

\* PathSpecFinder.find_module: the record (or NoSpec) and the cache afterwards
PathSpecFindModule(w, pic, modname, submodule_path) ==
  Only({
    LET is_namespace_pkg == spec.origin \in {"namespace", None}
        location == IF ~is_namespace_pkg THEN spec.origin ELSE None
        module_type == IF is_namespace_pkg THEN "PY_NAMESPACE" ELSE None
    IN IF spec.kind = "none" THEN [spec |-> NoSpec, pic |-> spec.pic]
       ELSE [spec |-> ModuleSpec(modname, module_type, location, spec.origin,
                                 List(spec.locations)),
             pic |-> spec.pic]
    : spec \in {PathFinderFindSpec(w, pic, modname, submodule_path)}})

\* PathSpecFinder.contribute_to_path
PathSpecContributeToPath(spec) ==
  IF spec.type = "PY_NAMESPACE" THEN spec.submodule_search_locations ELSE NoList

\* ExplicitNamespacePackageFinder.contribute_to_path
ExplicitNamespaceContributeToPath(spec) == spec.submodule_search_locations

\* Finder.contribute_to_path (inherited by ZipFinder): returns None
FinderContributeToPath(spec) == NoList
(***************************************************************************)
(* Cache population and the chain of finders.                              *)
(***************************************************************************)
\* _cached_set_diff(left, right)
CachedSetDiff(left, right) == Range(left) \ Range(right)

\* a _precache_zipimporters that returns the zipimporters the cache held on entry
PrecacheZipimporters_Stale(w, pic, path, order) ==
  LET req_paths == (Or(path, List(SysPath))).items
      cached_paths == [i \in DOMAIN pic |-> pic[i].key]
      new_paths == CachedSetDiff(req_paths, cached_paths)
      built == SelectSeq(order, LAMBDA e : e \in new_paths /\ IsZip(w, e))
  IN [pic |-> pic \o [i \in DOMAIN built |-> [key |-> built[i], importer |-> "zipimporter"]],
      importers |-> SelectSeq(pic, IsZipimporter), attempted |-> new_paths]

\* a _precache_zipimporters that returns the zipimporters of the search path only
PrecacheZipimporters_OnlySearchPath(w, pic, path, order) ==
  LET req_paths == (Or(path, List(SysPath))).items
      cached_paths == [i \in DOMAIN pic |-> pic[i].key]
      new_paths == CachedSetDiff(req_paths, cached_paths)
      built == SelectSeq(order, LAMBDA e : e \in new_paths /\ IsZip(w, e))
  IN Only({[pic |-> pic2,
            importers |-> SelectSeq(pic2, LAMBDA e : IsZipimporter(e)
                                                      /\ e.key \in Range(req_paths)),
            attempted |-> new_paths]
           : pic2 \in {pic \o [i \in DOMAIN built |->
                                  [key |-> built[i], importer |-> "zipimporter"]]}})

\* a _precache_zipimporters that stores None for a path that is no archive
PrecacheZipimporters_RecordsFailures(w, pic, path, order) ==
  LET req_paths == (Or(path, List(SysPath))).items
      cached_paths == [i \in DOMAIN pic |-> pic[i].key]
      new_paths == CachedSetDiff(req_paths, cached_paths)
      built == SelectSeq(req_paths, LAMBDA e : e \in new_paths)
  IN Only({[pic |-> pic2, importers |-> SelectSeq(pic2, IsZipimporter),
            attempted |-> new_paths]
           : pic2 \in {pic \o [i \in DOMAIN built |->
                                  [key |-> built[i],
                                   importer |-> IF IsZip(w, built[i]) THEN "zipimporter"
                                                ELSE None]]}})

\* _precache_zipimporters(path): the cache afterwards, the zipimporters it returns and the
\* paths a zipimporter was constructed for.  order is the iteration order of the set
\* new_paths (every archive path, in the order the set yields them).
PrecacheZipimporters(w, pic, path, order) ==
  LET req_paths == (Or(path, List(SysPath))).items
      cached_paths == [i \in DOMAIN pic |-> pic[i].key]
      new_paths == CachedSetDiff(req_paths, cached_paths)
      built == SelectSeq(order, LAMBDA e : e \in new_paths /\ IsZip(w, e))
  IN Only({[pic |-> pic2, importers |-> SelectSeq(pic2, IsZipimporter),
            attempted |-> new_paths]
           : pic2 \in {pic \o [i \in DOMAIN built |->
                                  [key |-> built[i], importer |-> "zipimporter"]]}})

\* the chain with the first two finders exchanged
SPEC_FINDERS_ZipFirst ==
  <<"ZipFinder", "ImportlibFinder", "PathSpecFinder", "ExplicitNamespacePackageFinder">>

\* _SPEC_FINDERS
SPEC_FINDERS ==
  <<"ImportlibFinder", "ZipFinder", "PathSpecFinder", "ExplicitNamespacePackageFinder">>

\* finder.find_module(modname, module_parts, processed, submodule_path) of the finder
\* class f; importers is what ZipFinder.__init__ stored in self._zipimporters
FinderFindModule(f, w, pic, importers, modname, module_parts, processed, submodule_path) ==
  CASE f = "ImportlibFinder" -> ImportlibFindModule(w, pic, modname, submodule_path)
    [] f = "ZipFinder" ->
         [spec |-> ZipFindModule(w, importers, modname, module_parts), pic |-> pic]
    [] f = "PathSpecFinder" -> PathSpecFindModule(w, pic, modname, submodule_path)
    [] f = "ExplicitNamespacePackageFinder" ->
         [spec |-> ExplicitNamespaceFindModule(w, modname, processed), pic |-> pic]

\* finder.contribute_to_path(spec, processed) of the finder class f
FinderContribute(f, w, pic, spec, processed) ==
  CASE f = "ImportlibFinder" -> ImportlibContributeToPath(w, pic, spec, processed)
    [] f = "ZipFinder" -> [path |-> FinderContributeToPath(spec), pic |-> pic]
    [] f = "PathSpecFinder" -> [path |-> PathSpecContributeToPath(spec), pic |-> pic]
    [] f = "ExplicitNamespacePackageFinder" ->
         [path |-> ExplicitNamespaceContributeToPath(spec), pic |-> pic]

\* a message that names the components up to the one that failed
ModuleNotFound_Processed(module_parts, processed, modname) ==
  "No module named " \o JoinWith(".", Append(processed, modname))

\* the message of the ImportError _find_spec_with_path raises when every finder declined
ModuleNotFound(module_parts, processed, modname) ==
  "No module named " \o JoinWith(".", module_parts)

RECURSIVE TryFinders(_, _, _, _, _, _, _, _, _)
\* the loop over the finders in _find_spec_with_path, from the k-th finder on
TryFinders(k, w, pic, importers, modname, module_parts, processed, submodule_path, consulted) ==
  IF k > Len(SPEC_FINDERS)
    THEN [raised |-> TRUE, error |-> ModuleNotFound(module_parts, processed, modname),
          finder |-> None, spec |-> NoSpec, pic |-> pic, consulted |-> consulted]
  ELSE LET f == SPEC_FINDERS[k]
       IN Only({
            IF r.spec = NoSpec
              THEN TryFinders(k + 1, w, r.pic, importers, modname, module_parts, processed,
                              submodule_path, Append(consulted, f))
            ELSE [raised |-> FALSE, error |-> None, finder |-> f, spec |-> r.spec,
                  pic |-> r.pic, consulted |-> Append(consulted, f)]
            : r \in {FinderFindModule(f, w, pic, importers, modname, module_parts,
                                      processed, submodule_path)}})

\* _find_spec_with_path: construct the finders (ZipFinder.__init__ populates the cache),
\* then ask them in order
FindSpecWithPath(w, pic, order, search_path, modname, module_parts, processed, submodule_path) ==
  Only({
    Only({[raised |-> r.raised, error |-> r.error, finder |-> r.finder, spec |-> r.spec,
           pic |-> r.pic, consulted |-> r.consulted, attempted |-> pre.attempted,
           cache |-> pre.pic, importers |-> pre.importers]
          : r \in {TryFinders(1, w, pre.pic, pre.importers, modname, module_parts,
                              processed, submodule_path, <<>>)}})
    : pre \in {PrecacheZipimporters(w, pic, search_path, order)}})

\* a loop that asks for a child search path after every component, the last included
ComponentsRemain_Always(module_parts, i) == TRUE

\* `if modpath:` after component i was popped: components remain to be resolved
ComponentsRemain(module_parts, i) == i < Len(module_parts)

RECURSIVE FindSpecLoop(_, _, _, _, _, _, _, _, _)
\* the while loop of find_spec from component i on: pic is the cache, submodule_path and
\* spec the loop's variables, steps the log of the components handled so far (per component: the path
\* searched, the paths a zipimporter was constructed for, the cache and the zipimporters the
\* finders were constructed with, the finders asked, the one that matched and its record)
FindSpecLoop(w, order, module_parts, path, i, pic, submodule_path, spec, steps) ==
  IF i > Len(module_parts)
    THEN [status |-> "returned", spec |-> spec, error |-> None, pic |-> pic, steps |-> steps]
  ELSE LET modname == module_parts[i]
           processed == SubSeq(module_parts, 1, i - 1)
           searched == Or(submodule_path, path)
           more == ComponentsRemain(module_parts, i)
       IN Only({
            Only({
              LET spec2 == IF r.spec.type = "PKG_DIRECTORY"
                             THEN [r.spec EXCEPT !.submodule_search_locations = c.path]
                           ELSE r.spec
                  step == [modname |-> modname, searched |-> searched,
                           attempted |-> r.attempted, cache |-> r.cache,
                           importers |-> r.importers,
                           consulted |-> r.consulted, finder |-> r.finder, found |-> r.spec,
                           contributed |-> more /\ ~r.raised, child |-> c.path]
              IN IF r.raised
                   THEN [status |-> "raised", spec |-> NoSpec, error |-> r.error,
                         pic |-> r.pic, steps |-> Append(steps, step)]
                 ELSE FindSpecLoop(w, order, module_parts, path, i + 1, c.pic, c.path,
                                   spec2, Append(steps, step))
              : c \in {IF more /\ ~r.raised
                         THEN FinderContribute(r.finder, w, r.pic, r.spec,
                                               Append(processed, modname))
                       ELSE [path |-> submodule_path, pic |-> r.pic]}})
            : r \in {FindSpecWithPath(w, pic, order, Or(path, List(SysPath)), modname,
                                      module_parts, processed, searched)}})

\* a find_spec whose loop pops the components off the caller's own list
LocalModpath_Alias(modpath) == [alias |-> TRUE, items |-> modpath]

\* modpath = modpath[:]: the list the loop pops from is a copy of the argument
LocalModpath(modpath) == [alias |-> FALSE, items |-> modpath]

\* the caller's lists once the call is over, the loop having popped n components off its
\* list; module_parts is a second copy, and path is only read (path or sys.path,
\* tuple(path), list(submodule_path), iteration)
ArgumentsAfter(modpath, path, n) ==
  [modpath |-> IF LocalModpath(modpath).alias THEN SubSeq(modpath, n + 1, Len(modpath))
               ELSE modpath,
   path |-> path]

\* find_spec(modpath, path)
FindSpec(w, order, pic, modpath, path) ==
  Only({[status |-> r.status, spec |-> r.spec, error |-> r.error, pic |-> r.pic,
         steps |-> r.steps, after |-> ArgumentsAfter(modpath, path, Len(r.steps))]
        : r \in {FindSpecLoop(w, order, modpath, path, 1, pic, NoList, NoSpec, <<>>)}})

(***************************************************************************)
(* The state machine.  One process calls find_spec again and again (Spec);  *)
(* or NumThreads threads of one process call it concurrently (ConcSpec),    *)
(* each thread stepping through _precache_zipimporters.                     *)
(***************************************************************************)
VARIABLES
  world,      \* the name of the environment (DOMAIN World), fixed for the run
  hashOrder,  \* the iteration order of a set of archive paths, fixed for the process
  pic,        \* sys.path_importer_cache
  pc,         \* "idle", "done" while the caller holds the result of the last call, or
              \* "again" when the last call repeated the one before
  ncalls,     \* the number of calls made so far
  call,       \* the arguments of the last call of find_spec, and what the caller's lists
              \* hold after it
  ret,        \* what the last call returned or raised
  prev,       \* what the call before returned or raised, when the last call repeated it
  probe,      \* the last direct call of a method of ImportlibFinder and its result
  trace,      \* the log of the last call, one entry per component handled
  th,         \* thread -> the locals of its call of find_spec
  handles     \* archive path -> the number of zipimporters the threads stored for it

vars == <<world, hashOrder, pic, pc, ncalls, call, ret, prev, probe, trace, th, handles>>
seqvars == <<pc, ncalls, call, ret, prev, probe, trace>>

W == World[world]

SeqsUpTo(S, n) == UNION {[1..k -> S] : k \in 0..n}
Injective(s) == \A i, j \in DOMAIN s : i # j => s[i] # s[j]
\* the dotted paths of at most n components a caller asks for
ModPathsUpTo(n) == {mp \in SeqsUpTo(Names, n) : mp # <<>>}
\* the search paths of at most n entries a caller passes: None, or a list of distinct entries
SearchPathsUpTo(n) ==
  {NoList} \cup {List(p) : p \in {q \in SeqsUpTo(Entries, n) : Injective(q)}}
ModPaths == ModPathsUpTo(MaxDepth)
SearchPaths == SearchPathsUpTo(MaxPathLen)

NoCall == [modpath |-> <<>>, path |-> NoList, after |-> [modpath |-> <<>>, path |-> NoList]]
NoRet == [status |-> "none", spec |-> NoSpec, error |-> None]

NoProbe ==
  [op |-> "none", modname |-> None, submodule_path |-> NoList, spec |-> NoSpec,
   processed |-> <<>>, found |-> NoSpec, path |-> NoList]

\* the directories a caller of ImportlibFinder.find_module passes as submodule_path
ScanDirs == {"d1", "d2", "d1/a", "d2/a"}
\* the lists of at most n distinct directories, and None
ScanPathsUpTo(n) ==
  {NoList} \cup {List(p) : p \in {q \in SeqsUpTo(ScanDirs, n) : Injective(q)}}
\* the directories and names of the records a caller passes to contribute_to_path
ProbeDirs == {"d1", "d2", "d1/Lib"}
ProbeNames == Names \cup {"distutils"}

Threads == 1..NumThreads
IdleThread ==
  [pc |-> "idle", modpath |-> <<>>, path |-> NoList, i |-> 0, submodule_path |-> NoList,
   new |-> {}, size |-> 0, importers |-> <<>>, ret |-> NoRet]

\* the interpreter has cached an importer for every entry of sys.path at startup
InitialCache(w) ==
  [i \in DOMAIN SysPath |-> [key |-> SysPath[i], importer |-> ImporterFor(w, SysPath[i])]]

Init ==
  /\ world \in DOMAIN World
  /\ hashOrder \in {s \in [1..Cardinality(DOMAIN W.zip) -> DOMAIN W.zip] : Injective(s)}
  /\ pic = InitialCache(W)
  /\ pc = "idle"
  /\ ncalls = 0
  /\ call = NoCall
  /\ ret = NoRet
  /\ prev = NoRet
  /\ probe = NoProbe
  /\ trace = <<>>
  /\ th = [t \in Threads |-> IdleThread]
  /\ handles = [z \in DOMAIN W.zip |-> 0]

\* a caller calls find_spec(modpath, path) and gets its result
CallFindSpec(modpath, path) ==
  /\ pc = "idle"
  /\ ncalls < MaxCalls
  /\ \E r \in {FindSpec(W, hashOrder, pic, modpath, path)} :
       /\ pic' = r.pic
       /\ ret' = [status |-> r.status, spec |-> r.spec, error |-> r.error]
       /\ trace' = r.steps
       /\ call' = [modpath |-> modpath, path |-> path, after |-> r.after]
  /\ pc' = "done"
  /\ ncalls' = ncalls + 1
  /\ UNCHANGED <<world, hashOrder, prev, probe, th, handles>>

\* the caller is done with the result (a record is discarded once consumed)
Discard ==
  /\ pc \in {"done", "again"}
  /\ pc' = "idle"
  /\ call' = NoCall
  /\ ret' = NoRet
  /\ prev' = NoRet
  /\ trace' = <<>>
  /\ UNCHANGED <<world, hashOrder, pic, ncalls, probe, th, handles>>

Next ==
  \/ \E modpath \in ModPaths, path \in SearchPaths : CallFindSpec(modpath, path)
  \/ Discard

Spec == Init /\ [][Next]_vars

(***************************************************************************)
(* Direct calls of the methods of ImportlibFinder.                         *)
(***************************************************************************)
\* ImportlibFinder().find_module(modname, [modname], [], submodule_path)
ProbeFindModule(modname, submodule_path) ==
  /\ pc = "idle"
  /\ \E r \in {ImportlibFindModule(W, pic, modname, submodule_path)} :
       /\ pic' = r.pic
       /\ probe' = [NoProbe EXCEPT !.op = "find_module", !.modname = modname,
                                    !.submodule_path = submodule_path, !.found = r.spec]
  /\ UNCHANGED <<world, hashOrder, pc, ncalls, call, ret, prev, trace, th, handles>>

\* ImportlibFinder().contribute_to_path(spec, [spec.name]) for the record spec that
\* find_module produces for the name in the directory entry
ProbeContribute(entry, modname) ==
  /\ pc = "idle"
  /\ \E spec \in {ScanEntry(W, entry, modname)} :
       /\ spec # NoSpec
       /\ \E r \in {ImportlibContributeToPath(W, pic, spec, <<modname>>)} :
            /\ pic' = r.pic
            /\ probe' = [NoProbe EXCEPT !.op = "contribute_to_path", !.spec = spec,
                                         !.processed = <<modname>>, !.path = r.path]
  /\ UNCHANGED <<world, hashOrder, pc, ncalls, call, ret, prev, trace, th, handles>>

NextFinder ==
  \/ \E modname \in Names, submodule_path \in ScanPathsUpTo(MaxScanLen) :
       ProbeFindModule(modname, submodule_path)
  \/ \E entry \in ProbeDirs, modname \in ProbeNames : ProbeContribute(entry, modname)

FinderSpec == Init /\ [][NextFinder]_vars

\* the caller calls find_spec a second time, with the arguments of the call it just made
CallAgain ==
  /\ pc = "done"
  /\ ncalls < MaxCalls
  /\ \E r \in {FindSpec(W, hashOrder, pic, call.modpath, call.path)} :
       /\ pic' = r.pic
       /\ ret' = [status |-> r.status, spec |-> r.spec, error |-> r.error]
       /\ trace' = r.steps
       /\ call' = [call EXCEPT !.after = r.after]
  /\ prev' = ret
  /\ pc' = "again"
  /\ ncalls' = ncalls + 1
  /\ UNCHANGED <<world, hashOrder, probe, th, handles>>

NextRepeat ==
  \/ \E modpath \in ModPaths, path \in SearchPaths : CallFindSpec(modpath, path)
  \/ CallAgain
  \/ Discard

\* a caller that may repeat a call
RepeatSpec == Init /\ [][NextRepeat]_vars

(***************************************************************************)
(* Concurrent calls: the steps of one thread inside find_spec.             *)
(***************************************************************************)
\* thread t enters find_spec(modpath, path) (lines 358-365)
ThreadCall(t, modpath, path) ==
  /\ th[t].pc = "idle"
  /\ th' = [th EXCEPT ![t] = [IdleThread EXCEPT !.pc = "snapshot", !.modpath = modpath,
                                             !.path = path, !.i = 1]]
  /\ UNCHANGED <<world, hashOrder, pic, handles, seqvars>>

\* _precache_zipimporters, lines 295-297: the thread reads the keys of the cache and
\* computes the paths that are not cached yet
ThreadSnapshot(t) ==
  /\ th[t].pc = "snapshot"
  /\ th' = [th EXCEPT ![t].pc = "populate",
                      ![t].new = CachedSetDiff((Or(th[t].path, List(SysPath))).items,
                                               [k \in DOMAIN pic |-> pic[k].key])]
  /\ UNCHANGED <<world, hashOrder, pic, handles, seqvars>>

\* _precache_zipimporters, lines 299-303: one pass of the loop over new_paths; the store
\* pic[entry_path] = ... replaces the handle another thread stored in the meantime
ThreadConstruct(t) ==
  /\ th[t].pc = "populate"
  /\ \E e \in th[t].new :
       /\ \A f \in th[t].new :
            (IsZip(W, e) /\ IsZip(W, f)) =>
              (CHOOSE k \in DOMAIN hashOrder : hashOrder[k] = e)
                <= (CHOOSE k \in DOMAIN hashOrder : hashOrder[k] = f)
       /\ th' = [th EXCEPT ![t].new = @ \ {e}]
       /\ IF IsZip(W, e)
            THEN /\ pic' = IF e \in Keys(pic)
                             THEN [k \in DOMAIN pic |->
                                     IF pic[k].key = e
                                       THEN [key |-> e, importer |-> "zipimporter"]
                                     ELSE pic[k]]
                           ELSE Append(pic, [key |-> e, importer |-> "zipimporter"])
                 /\ handles' = [handles EXCEPT ![e] = @ + 1]
          ELSE UNCHANGED <<pic, handles>>
  /\ UNCHANGED <<world, hashOrder, seqvars>>

\* _precache_zipimporters, lines 304-308: the comprehension starts to iterate pic.items()
ThreadIterBegin(t) ==
  /\ th[t].pc = "populate"
  /\ th[t].new = {}
  /\ th' = [th EXCEPT ![t].pc = "iterate", ![t].size = Len(pic)]
  /\ UNCHANGED <<world, hashOrder, pic, handles, seqvars>>

\* the iteration ends: with the zipimporters of the cache, or with Python's RuntimeError
\* when the dict changed size while it was iterated
ThreadIterEnd(t) ==
  /\ th[t].pc = "iterate"
  /\ IF Len(pic) # th[t].size
       THEN th' = [th EXCEPT ![t].pc = "done",
                             ![t].ret = [status |-> "raised", spec |-> NoSpec,
                                         error |-> "RuntimeError: dictionary changed size during iteration"]]
     ELSE th' = [th EXCEPT ![t].pc = "find", ![t].importers = SelectSeq(pic, IsZipimporter)]
  /\ UNCHANGED <<world, hashOrder, pic, handles, seqvars>>

\* _find_spec_with_path, lines 332-338, and the rest of the loop body of find_spec, lines
\* 372-377: the finders are asked in order, then the next component or the return
ThreadFind(t) ==
  /\ th[t].pc = "find"
  /\ \E l \in {th[t]} :
     \E r \in {TryFinders(1, W, pic, l.importers, l.modpath[l.i], l.modpath,
                          SubSeq(l.modpath, 1, l.i - 1), Or(l.submodule_path, l.path),
                          <<>>)} :
     LET more == l.i < Len(l.modpath)
     IN
     \E c \in {IF more /\ ~r.raised
                 THEN FinderContribute(r.finder, W, r.pic, r.spec, SubSeq(l.modpath, 1, l.i))
               ELSE [path |-> l.submodule_path, pic |-> r.pic]} :
     LET spec2 == IF r.spec.type = "PKG_DIRECTORY"
                    THEN [r.spec EXCEPT !.submodule_search_locations = c.path]
                  ELSE r.spec
     IN /\ pic' = c.pic
        /\ th' = [th EXCEPT ![t] =
                    IF r.raised
                      THEN [l EXCEPT !.pc = "done",
                                     !.ret = [status |-> "raised", spec |-> NoSpec,
                                              error |-> r.error]]
                    ELSE IF more
                      THEN [l EXCEPT !.pc = "snapshot", !.i = l.i + 1,
                                     !.submodule_path = c.path]
                    ELSE [l EXCEPT !.pc = "done",
                                   !.ret = [status |-> "returned", spec |-> spec2,
                                            error |-> None]]]
  /\ UNCHANGED <<world, hashOrder, handles, seqvars>>

NextConc ==
  \E t \in Threads :
    \/ \E modpath \in ModPathsUpTo(ConcDepth), path \in SearchPathsUpTo(ConcPathLen) :
         ThreadCall(t, modpath, path)
    \/ ThreadSnapshot(t)
    \/ ThreadConstruct(t)
    \/ ThreadIterBegin(t)
    \/ ThreadIterEnd(t)
    \/ ThreadFind(t)

ConcSpec == Init /\ [][NextConc]_vars

(***************************************************************************)
(* Properties of a call of find_spec, stated over the caller's view        *)
(* (call, ret), the log of the call (trace) and the cache (pic).           *)
(***************************************************************************)
\* the order of the chain: ImportlibFinder, ZipFinder, PathSpecFinder,
\* ExplicitNamespacePackageFinder
FinderOrder ==
  <<"ImportlibFinder", "ZipFinder", "PathSpecFinder", "ExplicitNamespacePackageFinder">>

\* what finder f answers for component i of the last call
MatchOf(f, i) ==
  FinderFindModule(f, W, trace[i].cache, trace[i].importers, trace[i].modname, call.modpath,
                   SubSeq(call.modpath, 1, i - 1), trace[i].searched).spec

\* the search path the last call resolves against: path or sys.path
CallPath == (Or(call.path, List(SysPath))).items

DottedName(parts) == JoinWith(".", parts)

\* C1: for every component the finders are consulted in the fixed order ImportlibFinder,
\* ZipFinder, PathSpecFinder, ExplicitNamespacePackageFinder; every finder consulted before
\* the last one declined, the record of the component is the one the first matching finder
\* produced, no finder after it is consulted, and the call fails for the component only
\* when all four declined.
C1_FirstMatchWins ==
  \A i \in DOMAIN trace :
    \E n \in 1..Len(FinderOrder) :
      /\ trace[i].consulted = SubSeq(FinderOrder, 1, n)
      /\ \A j \in 1..(n - 1) : MatchOf(FinderOrder[j], i) = NoSpec
      /\ IF trace[i].finder = None
           THEN n = Len(FinderOrder) /\ MatchOf(FinderOrder[n], i) = NoSpec
                /\ ret.status = "raised" /\ i = Len(trace)
         ELSE /\ trace[i].finder = FinderOrder[n]
              /\ trace[i].found # NoSpec
              /\ trace[i].found = MatchOf(FinderOrder[n], i)
              /\ (i = Len(trace) =>
                    /\ ret.status = "returned"
                    /\ ret.spec.name = trace[i].found.name
                    /\ ret.spec.type = trace[i].found.type
                    /\ ret.spec.location = trace[i].found.location)

\* a component ImportlibFinder produced the record of while ZipFinder matches it too
C1_Witness ==
  \E i \in DOMAIN trace :
    /\ trace[i].finder = "ImportlibFinder"
    /\ MatchOf("ZipFinder", i) # NoSpec

IsBuiltin(name) == W.native[name] = "builtin"

\* C2 as claimed: find_spec([name], path) of a name the native builtin loader satisfies
\* returns a C_BUILTIN record without location, for every search path (None or a list).
C2_BuiltinForEveryPath ==
  (pc = "done" /\ Len(call.modpath) = 1 /\ IsBuiltin(call.modpath[1]))
    => /\ ret.status = "returned"
       /\ ret.spec.type = "C_BUILTIN"
       /\ ret.spec.location = None

\* C2 amended: find_spec([name], None) of a name the native builtin loader satisfies
\* returns a C_BUILTIN record without location, whatever files sys.path holds.
C2_BuiltinWithoutPath ==
  (pc = "done" /\ Len(call.modpath) = 1 /\ IsBuiltin(call.modpath[1])
     /\ call.path = NoList)
    => /\ ret.status = "returned"
       /\ ret.spec = ModuleSpec(call.modpath[1], "C_BUILTIN", None, None, NoList)
       /\ trace[1].consulted = <<"ImportlibFinder">>

\* a builtin name resolved without a search path while sys.path holds a source file of
\* that name
C2_Witness ==
  /\ pc = "done"
  /\ Len(call.modpath) = 1
  /\ IsBuiltin(call.modpath[1])
  /\ call.path = NoList
  /\ \E k \in DOMAIN SysPath : IsFile(W, PathJoin(SysPath[k], call.modpath[1] \o ".py"))
  /\ ret.spec.type = "C_BUILTIN"

\* what _search_zip does for the last call with the zipimporters of component i
ZipSearch(i) == SearchZip(W, call.modpath, trace[i].importers)

\* ZipFinder was asked for component i and an archive holds the first component of the
\* dotted path but not the whole path
ZipPartialAt(i) ==
  /\ "ZipFinder" \in Range(trace[i].consulted)
  /\ ZipSearch(i).partial

\* C3 as claimed: when a cached archive holds the first component but not the whole dotted
\* path, the call fails at once with the error of the archive search, and the finders
\* after ZipFinder are not consulted.
C3_PartialMatchIsHardFailure ==
  \A i \in DOMAIN trace :
    ZipPartialAt(i)
      => /\ trace[i].consulted = <<"ImportlibFinder", "ZipFinder">>
         /\ ret.status = "raised"
         /\ ret.error = ZipSearch(i).error

\* C3 amended: when a cached archive holds the first component but not the whole dotted
\* path, ZipFinder declines: PathSpecFinder is consulted next, ZipFinder never produces
\* the record, and the call fails for the component only if the later finders decline
\* too, with the error that names the requested dotted path.
C3_PartialMatchDeclines ==
  \A i \in DOMAIN trace :
    ZipPartialAt(i)
      => /\ trace[i].finder # "ZipFinder"
         /\ Len(trace[i].consulted) >= 3
         /\ trace[i].consulted[3] = "PathSpecFinder"
         /\ trace[i].finder = None
              => /\ ret.status = "raised"
                 /\ ret.error = "No module named " \o DottedName(call.modpath)
                 /\ ret.error # ZipSearch(i).error

\* a partial match in an archive, and a later finder produced the record
C3_Witness ==
  \E i \in DOMAIN trace :
    /\ ZipPartialAt(i)
    /\ trace[i].finder = "PathSpecFinder"

\* the last component of the last call resolved, via ImportlibFinder, to a package
\* directory whose __init__ file holds no namespace markers
EndsInOrdinaryPackage ==
  /\ pc = "done"
  /\ ret.status = "returned"
  /\ trace[Len(trace)].finder = "ImportlibFinder"
  /\ trace[Len(trace)].found.type = "PKG_DIRECTORY"
  /\ ~IsSetuptoolsNamespace(W, trace[Len(trace)].found.location)

\* C4: when the last component resolves via ImportlibFinder to a package directory
\* without namespace markers, the record returned has type PKG_DIRECTORY and
\* submodule_search_locations equal to the list of that package's own directory.
C4_PackageOwnDirectory ==
  EndsInOrdinaryPackage
    => /\ ret.spec.type = "PKG_DIRECTORY"
       /\ ret.spec.submodule_search_locations =
            List(<<trace[Len(trace)].found.location>>)

\* C5 as claimed: when every finder declines a component the call raises, attempts no
\* later component, and the error names the components up to and including the failed one.
C5_ErrorNamesAttemptedPath ==
  (pc = "done" /\ ret.status = "raised")
    => /\ Len(trace[Len(trace)].consulted) = Len(FinderOrder)
       /\ ret.spec = NoSpec
       /\ ret.error = "No module named " \o DottedName(SubSeq(call.modpath, 1, Len(trace)))

\* C5 amended: when every finder declines a component the call raises, attempts no later
\* component and returns no record, and the error names the whole dotted path requested.
C5_ErrorNamesRequestedPath ==
  /\ (pc = "done" /\ ret.status = "raised")
       => /\ trace[Len(trace)].finder = None
          /\ trace[Len(trace)].consulted = FinderOrder
          /\ \A i \in 1..(Len(trace) - 1) : trace[i].finder # None
          /\ ret.spec = NoSpec
          /\ ret.error = "No module named " \o DottedName(call.modpath)
  /\ (pc = "done" /\ ret.status = "returned")
       => /\ Len(trace) = Len(call.modpath)
          /\ \A i \in DOMAIN trace : trace[i].finder # None

\* a call that failed at a component before the last one
C5_Witness ==
  /\ pc = "done"
  /\ ret.status = "raised"
  /\ Len(trace) < Len(call.modpath)

\* the last call asked for [a, b], a resolved via ImportlibFinder to a package directory
\* without namespace markers, and b is in that directory as a source file only (no
\* extension module and no package of that name beside it)
PackageThenSource ==
  /\ pc = "done"
  /\ Len(call.modpath) = 2
  /\ trace[1].finder = "ImportlibFinder"
  /\ trace[1].found.type = "PKG_DIRECTORY"
  /\ ~IsSetuptoolsNamespace(W, trace[1].found.location)
  /\ ScanEntry(W, trace[1].found.location, call.modpath[2]).type = "PY_SOURCE"

\* C6: find_spec([a, b]) where a resolves to an ordinary package directory and b is a
\* source file inside it returns one record, for b: name b, type PY_SOURCE, location a's
\* directory joined with b's file name; the record of a is not what the caller gets.
C6_MultiComponentWalk ==
  PackageThenSource
    => /\ ret.status = "returned"
       /\ Len(trace) = 2
       /\ trace[2].searched = List(<<trace[1].found.location>>)
       /\ ret.spec.name = call.modpath[2]
       /\ ret.spec.type = "PY_SOURCE"
       /\ ret.spec.location =
            PathJoin(trace[1].found.location, call.modpath[2] \o SOURCE_SUFFIXES[1])
       /\ ret.spec # trace[1].found

\* the walk happened while the search path itself holds a module named like b
C6_Witness ==
  /\ PackageThenSource
  /\ ret.status = "returned"
  /\ \E k \in DOMAIN CallPath : ScanEntry(W, CallPath[k], call.modpath[2]) # NoSpec

\* the archive of the record ZipFinder produced for component i
ArchiveOf(i) == trace[i].found.submodule_search_locations.items[1]

\* C7 as claimed: ZipFinder produces a record only from an archive that is an entry of
\* the search path of the current call.
C7_OnlySearchPathArchives ==
  \A i \in DOMAIN trace :
    trace[i].finder = "ZipFinder" => ArchiveOf(i) \in Range(CallPath)

\* C7 amended: ZipFinder searches every zipimporter that is in the cache once the finders
\* are constructed, in the order of the cache, whether or not its archive is an entry of
\* the search path of the call: it produces the record exactly when one of them holds
\* the dotted path, and the record comes from the first that holds the first component.
C7_EveryCachedArchive ==
  \A i \in DOMAIN trace :
    "ZipFinder" \in Range(trace[i].consulted)
      => \E all \in {SelectSeq(trace[i].cache, IsZipimporter)} :
           \E hits \in {{k \in DOMAIN all : ZipHas(W, all[k].key, call.modpath[1])}} :
             /\ trace[i].importers = all
             /\ (trace[i].finder = "ZipFinder")
                  <=> \E k \in hits :
                        /\ \A j \in hits : k <= j
                        /\ ZipHas(W, all[k].key, JoinWith(Sep, call.modpath))
             /\ trace[i].finder = "ZipFinder"
                  => /\ ArchiveOf(i) \in {all[k].key : k \in hits}
                     /\ \A k \in hits : all[k].key # ArchiveOf(i)
                          => \E j \in hits : j < k /\ all[j].key = ArchiveOf(i)
                     /\ trace[i].found.type = "PY_ZIPMODULE"

\* a record from an archive that is no entry of the search path of the call
C7_Witness ==
  \E i \in DOMAIN trace :
    /\ trace[i].finder = "ZipFinder"
    /\ ArchiveOf(i) \notin Range(CallPath)

\* C8 as claimed: the construction of a zipimporter is attempted at most once per path:
\* no path is tried for two components of a call.
C8_ConstructionAttemptedOnce ==
  \A i, j \in DOMAIN trace : i # j => trace[i].attempted \cap trace[j].attempted = {}

\* C8 amended: a path whose construction failed is not recorded: after the finders are
\* constructed the cache holds, of the paths tried, exactly the archives, every entry of
\* the search path still without importer was tried (again) in this construction, and
\* the call fails only when all the finders declined a component.
C8_FailedConstructionNotRecorded ==
  \A i \in DOMAIN trace :
    /\ trace[i].attempted \cap Keys(trace[i].cache)
         = {e \in trace[i].attempted : IsZip(W, e)}
    /\ Range(CallPath) \ Keys(trace[i].cache)
         = {e \in trace[i].attempted : ~IsZip(W, e)}
    /\ \A e \in trace[i].attempted :
         ~IsZip(W, e) => e \notin {trace[i].importers[k].key : k \in DOMAIN trace[i].importers}
    /\ (i = Len(trace) /\ ret.status = "raised")
         => trace[i].consulted = FinderOrder /\ trace[i].finder = None

\* a path that is no archive is tried for two components of one call, which returns
C8_Witness ==
  /\ pc = "done"
  /\ ret.status = "returned"
  /\ \E i, j \in DOMAIN trace :
       /\ i < j
       /\ \E e \in trace[i].attempted \cap trace[j].attempted : ~IsZip(W, e)

\* C9: a call of find_spec never removes a key from sys.path_importer_cache.
C9_CacheOnlyGrows == [][Keys(pic) \subseteq Keys(pic')]_vars

\* a failing call after which the cache holds more than the interpreter put there
C9_Witness ==
  /\ pc = "done"
  /\ ret.status = "raised"
  /\ Len(pic) > Len(InitialCache(W)) + 1
  /\ ncalls > 1

\* thread t is between its reading of the cache keys and its last store into the cache
Inserting(t) ==
  /\ th[t].pc = "populate"
  /\ \E e \in th[t].new : IsZip(W, e)

\* C10: the population of the cache is safe under concurrent calls: at most one
\* zipimporter is constructed and stored per path, and no thread iterates the cache while
\* another thread is in the middle of inserting into it.
C10_AtomicPopulation ==
  /\ \A e \in DOMAIN handles : handles[e] <= 1
  /\ \A t, u \in Threads : (t # u /\ th[t].pc = "iterate") => ~Inserting(u)
  /\ \A t \in Threads : th[t].ret.status = "raised" => StartsWith(th[t].ret.error, "No module")

MatchKind(e, m) ==
  IF IsFile(W, PathJoin(PathJoin(e, m), "__init__.py"))
       \/ IsFile(W, PathJoin(PathJoin(e, m), "__init__.pyc")) THEN "PKG_DIRECTORY"
  ELSE IF IsFile(W, PathJoin(e, m \o ".so")) THEN "C_EXTENSION"
  ELSE IF IsFile(W, PathJoin(e, m \o ".py")) THEN "PY_SOURCE"
  ELSE IF IsFile(W, PathJoin(e, m \o ".pyc")) THEN "PY_COMPILED"
  ELSE "none"

\* the path of the match that wins in the directory e for the name m
MatchLocation(e, m) ==
  CASE MatchKind(e, m) = "PKG_DIRECTORY" -> PathJoin(e, m)
    [] MatchKind(e, m) = "C_EXTENSION" -> PathJoin(e, m \o ".so")
    [] MatchKind(e, m) = "PY_SOURCE" -> PathJoin(e, m \o ".py")
    [] MatchKind(e, m) = "PY_COMPILED" -> PathJoin(e, m \o ".pyc")
    [] OTHER -> None

\* the directories the last direct call of find_module scanned
Scanned == IF probe.submodule_path = NoList THEN SysPath ELSE probe.submodule_path.items

\* the last direct call of find_module scanned directories (no builtin or frozen answer)
ScannedDirectories ==
  /\ probe.op = "find_module"
  /\ probe.found.type \notin {"C_BUILTIN", "PY_FROZEN"}

\* C12: ImportlibFinder.find_module examines the entries of the search path in order and
\* the first entry holding any match wins; within an entry a package directory wins over
\* a file of the same name, and among files the native extension, then the source, then
\* the bytecode; the record has the class of the winning match as type and its path as
\* location; without any match the finder declines.
C12_ScanPrecedence ==
  ScannedDirectories
    => \E hits \in {{k \in DOMAIN Scanned : MatchKind(Scanned[k], probe.modname) # "none"}} :
         IF hits = {} THEN probe.found = NoSpec
         ELSE \E k \in hits :
                /\ \A j \in hits : k <= j
                /\ probe.found = ModuleSpec(probe.modname,
                                            MatchKind(Scanned[k], probe.modname),
                                            MatchLocation(Scanned[k], probe.modname),
                                            None, NoList)

\* two entries hold different matches, the first holds an extension module beside a source
\* file of the same name, and the extension module of the first entry is the record
C12_Witness ==
  /\ ScannedDirectories
  /\ Len(Scanned) = 2
  /\ MatchKind(Scanned[1], probe.modname) = "C_EXTENSION"
  /\ IsFile(W, PathJoin(Scanned[1], probe.modname \o ".py"))
  /\ MatchKind(Scanned[2], probe.modname) = "PKG_DIRECTORY"
  /\ probe.found.type = "C_EXTENSION"

\* component i of the last call matched a package directory whose __init__.py holds the
\* namespace-extension markers, and components remained
WidenedAt(i) ==
  /\ trace[i].finder = "ImportlibFinder"
  /\ trace[i].contributed
  /\ trace[i].found.type = "PKG_DIRECTORY"
  /\ \E data \in {W.head[d] : d \in {Rel(PathJoin(trace[i].found.location, "__init__.py"))}
                                     \cap DOMAIN W.head} :
       \/ {"pkgutil", "extend_path"} \subseteq data
       \/ {"pkg_resources", "declare_namespace(__name__)"} \subseteq data

\* the directories of the list dirs that hold the subdirectory named by the first i
\* components of the last call, in the order of dirs
SameNamedIn(dirs, i) ==
  SelectSeq([k \in DOMAIN dirs |-> PathJoinAll(dirs[k], SubSeq(call.modpath, 1, i))],
            LAMBDA d : IsDir(W, d))

\* C13 as claimed: the widened child search path is derived from the search path of the
\* call (the caller's path when given, sys.path otherwise).
C13_WidensOverCallPath ==
  \A i \in DOMAIN trace :
    WidenedAt(i) => trace[i].child = List(SameNamedIn(CallPath, i))

\* C13, amended: the widened child search path is derived from sys.path, whatever path
\* the caller gave: every directory of sys.path that holds the same-named subdirectory,
\* in the order of sys.path, and nothing else.
C13_WidensOverSysPath ==
  \A i \in DOMAIN trace :
    WidenedAt(i) => trace[i].child = List(SameNamedIn(SysPath, i))

\* a package matched on the caller's own path was widened, and the child search path
\* is not what the caller's path gives and does not hold the package's own directory
C13_Witness ==
  /\ call.path # NoList
  /\ \E i \in DOMAIN trace :
       /\ WidenedAt(i)
       /\ trace[i].child # List(SameNamedIn(CallPath, i))
       /\ trace[i].child # List(<<trace[i].found.location>>)
       /\ trace[i].child.items # <<>>

\* C14 as claimed: in every record find_spec returns, submodule_search_locations is
\* present exactly when the record is a package directory or a namespace; records of
\* every other kind carry none.
C14_LocationsIffPackageLike ==
  (pc # "idle" /\ ret.status = "returned")
    => (ret.spec.submodule_search_locations # NoList
          <=> ret.spec.type \in {"PKG_DIRECTORY", "PY_NAMESPACE"})

\* C19 as claimed: every record find_spec returns has a type that is a member of
\* ModuleType; the type is never absent.
C19_TypeIsModuleType ==
  (pc # "idle" /\ ret.status = "returned") => ret.spec.type \in ModuleType

\* the last direct call of contribute_to_path was for a package directory whose
\* __init__.py cannot be read
UnreadableInit ==
  /\ probe.op = "contribute_to_path"
  /\ probe.spec.type = "PKG_DIRECTORY"
  /\ ~IsFile(W, PathJoin(probe.spec.location, "__init__.py"))

\* the last direct call of contribute_to_path was for a distutils outside the
\* interpreter's library directories
ForeignDistutils ==
  /\ probe.spec.name = "distutils"
  /\ ~StartsWith(Lower(probe.spec.location), Lower("d1/Lib"))

\* C15 as claimed: when the __init__.py of the matched package directory cannot be read,
\* the child search path is the single-element list of the package's location, for every
\* module name, distutils included.
C15_UnreadableSkipsBothCases ==
  UnreadableInit => probe.path = List(<<probe.spec.location>>)

\* C15, amended: when the __init__.py of the matched package directory cannot be read,
\* no error is propagated and the namespace widening does not apply; the child search
\* path is the single-element list of the package's location, except for a package named
\* distutils outside the interpreter's library directories, for which it is the directory
\* of the distutils the interpreter itself imports (the package's location when the
\* interpreter finds none or one without origin).
C15_UnreadableSkipsWidening ==
  UnreadableInit
    => \E u \in {UtilFindSpec(W, pic, "distutils")} :
         probe.path = IF ForeignDistutils /\ u.loader # "none" /\ u.origin # None
                        THEN List(<<Parent(u.origin)>>)
                      ELSE List(<<probe.spec.location>>)

\* a distutils package without a readable __init__.py was matched outside the library
\* directories, and the child search path is another directory than its location
C15_Witness ==
  /\ UnreadableInit
  /\ ForeignDistutils
  /\ probe.path.items # <<>>
  /\ probe.path # List(<<probe.spec.location>>)

\* C16 as claimed: contribute_to_path is called only when components remain and the
\* matched record is a package directory or a namespace.
C16_ContributeOnlyForPackages ==
  \A i \in DOMAIN trace :
    trace[i].contributed
      => /\ i < Len(call.modpath)
         /\ trace[i].found.type \in {"PKG_DIRECTORY", "PY_NAMESPACE"}

\* C16, amended: the matching finder's contribute_to_path is called exactly when a
\* component was matched and components remain, whatever the kind of the record; it is
\* never called for the last component.
C16_ContributeWhenComponentsRemain ==
  \A i \in DOMAIN trace :
    /\ trace[i].contributed <=> (trace[i].found # NoSpec /\ i < Len(call.modpath))
    /\ ~trace[i].contributed /\ trace[i].found # NoSpec => i = Len(call.modpath)

\* a plain source file was matched while components remained, and the finder was asked
\* for a child search path: the file itself
C16_Witness ==
  /\ Len(trace) = 2
  /\ trace[1].contributed
  /\ trace[1].found.type = "PY_SOURCE"
  /\ trace[1].child = List(<<trace[1].found.location>>)
  /\ trace[2].searched = trace[1].child
  /\ ~trace[2].contributed

\* the child search path contributed for component i of the last call is absent or empty
NoChildAt(i) == trace[i].child \in {NoList, List(<<>>), Str("")}

\* C18 as claimed: every component after the first is searched only in the child search
\* path derived from the record matched for its parent; without such a child search path
\* the next component is not resolved at all.
C18_ChildConfinement ==
  \A i \in DOMAIN trace :
    i > 1 => /\ ~NoChildAt(i - 1)
             /\ trace[i].searched = trace[i - 1].child

\* C18, amended: the first component is searched in the caller's path (absent: builtin and
\* frozen lookup, then sys.path); every later component is searched in the child search
\* path contributed for its parent when that is neither absent nor empty, and in the
\* caller's path (absent: builtin and frozen lookup, then sys.path) otherwise.
C18_ChildPathOrCallerPath ==
  \A i \in DOMAIN trace :
    trace[i].searched = IF i > 1 /\ ~NoChildAt(i - 1) THEN trace[i - 1].child
                        ELSE call.path

\* a builtin parent contributed no child search path, and the call returned the record
\* of the top-level source file that has the name of the second component
C18_Witness ==
  /\ pc = "done" /\ ret.status = "returned"
  /\ Len(trace) = 2
  /\ trace[1].found.type = "C_BUILTIN"
  /\ trace[1].contributed /\ NoChildAt(1)
  /\ trace[2].searched = call.path
  /\ ret.spec.type = "PY_SOURCE"
  /\ ret.spec.location = PathJoin(SysPath[1], call.modpath[2] \o ".py")

====
